---- MODULE Spec2Model ----
(***************************************************************************)
(* Model of the xtreme-pawsx evaluation and preprocessing scripts:         *)
(*   src/src/evaluate.py   (readers, metrics, registry tables, evaluate)   *)
(*   src/src/preprocess.py (pawsx_preprocess)                              *)
(*                                                                         *)
(* A Python dict is a TLA+ function whose DOMAIN is the key set.  A raised *)
(* exception is the string held in err; "none" means no exception.  A      *)
(* float is an exact fraction [num, den] in lowest terms.  A line of a     *)
(* text file is a sequence of one-character strings.                       *)
(***************************************************************************)
EXTENDS Integers, Sequences, FiniteSets, TLC

VARIABLES
    call,               \* the entry point being executed
    pc,                 \* position inside that entry point
    err,                \* exception that ended the call, or "none"
    roots,              \* which of the prediction and label root folders exist
    predDirs,           \* first-level subfolders of the prediction root
    labelDirs,          \* first-level subfolders of the label root
    files,              \* per language: the prediction file, the label file and
                        \* what the seqeval scorers answer for that pair
    prediction_tasks,   \* evaluate: local of the same name
    label_tasks,        \* evaluate: local of the same name
    taskIdx,            \* evaluate: position of `for task, langs in TASK2LANGS.items()`
    detailed_scores,    \* evaluate: local of the same name
    overall_scores,     \* evaluate: local of the same name
    argTask,            \* evaluate_one_task: argument task
    argLang,            \* evaluate_one_task: argument language
    result,             \* evaluate_one_task: returned dict
    score,              \* per-task block of evaluate: local `score`
    langIdx,            \* per-task block of evaluate: position of `for lg in langs`
    tagFile,            \* read_tag: the lines of the file
    tagPos,             \* read_tag: number of lines consumed
    labels,             \* read_tag: local of the same name
    example,            \* read_tag: local of the same name
    rawRows,            \* pawsx_preprocess: the lines of every raw file, absent files left out
    outDirExists,       \* pawsx_preprocess: os.path.exists(args.output_dir)
    fileIdx,            \* pawsx_preprocess: position in the (lang, split) loops
    written             \* pawsx_preprocess: output files written so far

vars == << call, pc, err, roots, predDirs, labelDirs, files, prediction_tasks, label_tasks,
           taskIdx, detailed_scores, overall_scores, argTask, argLang, result, score, langIdx,
           tagFile, tagPos, labels, example, rawRows, outDirExists, fileIdx, written >>

(***************************************************************************)
(* Bounds of the model.                                                    *)
(***************************************************************************)
\* how many languages may differ from the default pair of files
MaxDeviating == 1
\* longest file handed to read_tag, in lines
MaxLines == 3
\* most data rows in a raw PAWS-X file
MaxRows == 1

(***************************************************************************)
(* Exact fractions standing for Python floats.                             *)
(***************************************************************************)
RECURSIVE GCD(_, _)
GCD(a, b) == IF b = 0 THEN a ELSE GCD(b, a % b)

Rat(n, d) == LET g == GCD(n, d) IN
             IF g = 0 THEN [num |-> 0, den |-> 1] ELSE [num |-> n \div g, den |-> d \div g]

RAdd(a, b) == Rat(a.num * b.den + b.num * a.den, a.den * b.den)

RDivInt(a, k) == Rat(a.num, a.den * k)

RMulInt(a, k) == Rat(a.num * k, a.den)

Zero == Rat(0, 1)

\* sum(values) over the dict d
RECURSIVE RSum(_)
RSum(d) == IF DOMAIN d = {} THEN Zero
           ELSE LET k == CHOOSE x \in DOMAIN d : TRUE
                IN RAdd(d[k], RSum([x \in DOMAIN d \ {k} |-> d[x]]))

\* sum of a sequence of fractions
RECURSIVE RSumSeq(_)
RSumSeq(s) == IF s = <<>> THEN Zero ELSE RAdd(Head(s), RSumSeq(Tail(s)))

SeqToSet(s) == {s[i] : i \in 1..Len(s)}

EmptyDict == <<>>

(***************************************************************************)
(* Text files.                                                             *)
(***************************************************************************)
Whitespace == {" ", "\t", "\n"}

RECURSIVE LStrip(_)
LStrip(line) == IF line # <<>> /\ Head(line) \in Whitespace THEN LStrip(Tail(line)) ELSE line

RECURSIVE RStrip(_)
RStrip(line) == IF line # <<>> /\ line[Len(line)] \in Whitespace
                THEN RStrip(SubSeq(line, 1, Len(line) - 1)) ELSE line

\* str.strip()
Strip(line) == RStrip(LStrip(line))

NoFile == [exists |-> FALSE, lines |-> <<>>]

TextFile(ls) == [exists |-> TRUE, lines |-> ls]

Ok(v) == [err |-> "none", val |-> v]

Raise(e) == [err |-> e, val |-> <<>>]

\* [line.strip() for line in open(file)]
read_label(file) ==
    IF ~file.exists THEN Raise("FileNotFoundError")
    ELSE Ok([i \in 1..Len(file.lines) |-> Strip(file.lines[i])])

(***************************************************************************)
(* Metric functions.                                                       *)
(***************************************************************************)
\* The answers of seqeval's f1_score, precision_score and recall_score for the
\* label lists of one language: fractions in [0, 1] supplied by the environment.
SeqevalScores(labs, predictions, language) == files[language].seqeval

f1(labs, predictions, language) ==
    LET s == SeqevalScores(labs, predictions, language)
    IN Ok([m \in {"f1", "precision", "recall"} |-> RMulInt(s[m], 100)])

Min(a, b) == IF a < b THEN a ELSE b

accuracy(labs, predictions, language) ==
    LET n == Min(Len(predictions), Len(labs))
        correct == Cardinality({i \in 1..n : predictions[i] = labs[i]})
    IN IF Len(predictions) = 0 THEN Raise("ZeroDivisionError")
       ELSE Ok([m \in {"accuracy"} |-> RMulInt(Rat(correct, Len(predictions)), 100)])

(***************************************************************************)
(* Registry tables.                                                        *)
(***************************************************************************)
GROUP2TASK == [g \in {"classification"} |-> <<"pawsx", "xnli">>]

\* iteration order of GROUP2TASK.items()
GroupOrder == <<"classification">>

PawsxLangs == <<"de", "en", "es", "fr", "ja", "ko", "zh">>

TASK2LANGS == [t \in {"pawsx"} |-> PawsxLangs]

\* iteration order of TASK2LANGS.items()
TaskOrder == <<"pawsx">>

READER_FUNCTION == [t \in {"pawsx"} |-> "read_label"]

METRIC_FUNCTION == [t \in {"pawsx"} |-> "f1"]

\* the literal list of line 90
LengthCheckExempt == {"bucc2018", "mlqa", "tydiqa", "xquad"}

ApplyReader(name, file) == read_label(file)

ApplyMetric(name, labs, predictions, language) ==
    IF name = "f1" THEN f1(labs, predictions, language)
    ELSE accuracy(labs, predictions, language)

(***************************************************************************)
(* The file system seen by evaluate: <root>/<task>/test-<lang>.<suffix>.   *)
(* Only the pawsx folder holds files, and they are .tsv files.             *)
(***************************************************************************)
Path(root, task, lg, suffix) == [root |-> root, task |-> task, lang |-> lg, suffix |-> suffix]

FileAt(path) ==
    IF path.task = "pawsx" /\ path.suffix = "tsv" /\ path.lang \in DOMAIN files
    THEN IF path.root = "prediction" /\ "pawsx" \in predDirs THEN files[path.lang].pred
         ELSE IF path.root = "label" /\ "pawsx" \in labelDirs THEN files[path.lang].label
         ELSE NoFile
    ELSE NoFile

evaluate_one_task(prediction_file, label_file, task, language) ==
    IF task \notin DOMAIN READER_FUNCTION THEN Raise("KeyError")
    ELSE
    LET predictions == ApplyReader(READER_FUNCTION[task], FileAt(prediction_file))
        labs == ApplyReader(READER_FUNCTION[task], FileAt(label_file))
    IN IF predictions.err # "none" THEN predictions
       ELSE IF labs.err # "none" THEN labs
       ELSE IF task \notin LengthCheckExempt /\ Len(predictions.val) # Len(labs.val)
            THEN Raise("AssertionError")
       ELSE IF task \notin DOMAIN METRIC_FUNCTION THEN Raise("KeyError")
       ELSE ApplyMetric(METRIC_FUNCTION[task], labs.val, predictions.val, language)

(***************************************************************************)
(* evaluate: the block run for one eligible task (lines 115-141).          *)
(* score is [per |-> metric -> (language -> value), avg |-> the avg_ keys]. *)
(***************************************************************************)
EmptyScore == [per |-> EmptyDict, avg |-> EmptyDict]

\* "json" if task in GROUP2TASK["qa"] else "tsv"
Suffix(task) ==
    IF "qa" \notin DOMAIN GROUP2TASK THEN Raise("KeyError")
    ELSE IF task \in SeqToSet(GROUP2TASK["qa"]) THEN Ok("json") ELSE Ok("tsv")

\* for metric in score_lg: score[metric][lg] = score_lg[metric]
FoldScore(per, lg, score_lg) ==
    [m \in DOMAIN per \cup DOMAIN score_lg |->
        IF m \in DOMAIN score_lg
        THEN [l \in (IF m \in DOMAIN per THEN DOMAIN per[m] ELSE {}) \cup {lg} |->
                 IF l = lg THEN score_lg[m] ELSE per[m][l]]
        ELSE per[m]]

\* for lg in langs: ... (lines 118-128), from position i of langs
RECURSIVE FoldLangs(_, _, _, _, _)
FoldLangs(task, suffix, langs, i, per) ==
    IF i > Len(langs) THEN Ok(per)
    ELSE LET lg == langs[i]
             score_lg == evaluate_one_task(Path("prediction", task, lg, suffix),
                                           Path("label", task, lg, suffix), task, lg)
         IN IF score_lg.err # "none" THEN score_lg
            ELSE FoldLangs(task, suffix, langs, i + 1, FoldScore(per, lg, score_lg.val))

AvgKeyOf == [m \in {"f1", "precision", "recall", "accuracy", "exact_match"} |->
               CASE m = "f1" -> "avg_f1"
                 [] m = "precision" -> "avg_precision"
                 [] m = "recall" -> "avg_recall"
                 [] m = "accuracy" -> "avg_accuracy"
                 [] m = "exact_match" -> "avg_exact_match"]

\* the mean taken over len(score) instead of len(score[m])
MeanOverMetricCount(per, m) == RDivInt(RSum(per[m]), Cardinality(DOMAIN per))

\* sum(score[m].values()) / len(score[m])
MeanOf(per, m) == RDivInt(RSum(per[m]), Cardinality(DOMAIN per[m]))

\* avg_score[f'avg_{m}'] = ... for m in score (lines 130-132)
AvgScore(per) ==
    [k \in {AvgKeyOf[m] : m \in DOMAIN per} |->
        MeanOf(per, CHOOSE m \in DOMAIN per : AvgKeyOf[m] = k)]

\* lines 134-140
SummaryMetric(task, sc) ==
    IF "qa" \notin DOMAIN GROUP2TASK THEN Raise("KeyError")
    ELSE IF task \in SeqToSet(GROUP2TASK["qa"])
         THEN IF {"avg_exact_match", "avg_f1"} \subseteq DOMAIN sc.avg
              THEN Ok([sc EXCEPT !.avg = [k \in DOMAIN sc.avg \cup {"avg_metric"} |->
                         IF k = "avg_metric"
                         THEN RDivInt(RAdd(sc.avg["avg_exact_match"], sc.avg["avg_f1"]), 2)
                         ELSE sc.avg[k]]])
              ELSE Raise("TypeError")
    ELSE IF "avg_f1" \in DOMAIN sc.avg
         THEN Ok([sc EXCEPT !.avg = [k \in DOMAIN sc.avg \cup {"avg_metric"} |->
                     IF k = "avg_metric" THEN sc.avg["avg_f1"] ELSE sc.avg[k]]])
    ELSE IF "avg_accuracy" \in DOMAIN sc.avg
         THEN Ok([sc EXCEPT !.avg = [k \in DOMAIN sc.avg \cup {"avg_metric"} |->
                     IF k = "avg_metric" THEN sc.avg["avg_accuracy"] ELSE sc.avg[k]]])
    ELSE Ok(sc)

\* lines 115-140 for one task: the score stored in detailed_scores[task], or the exception
TaskBody(task) ==
    LET suffix == Suffix(task)
    IN IF suffix.err # "none" THEN suffix
       ELSE LET folded == FoldLangs(task, suffix.val, TASK2LANGS[task], 1, EmptyDict)
            IN IF folded.err # "none" THEN folded
               ELSE SummaryMetric(task, [per |-> folded.val, avg |-> AvgScore(folded.val)])

\* the test with `or` in place of `and`
EligibleEither(task, ptasks, ltasks) == task \in ptasks \/ task \in ltasks

\* if task in prediction_tasks and task in label_tasks
Eligible(task, ptasks, ltasks) == task \in ptasks /\ task \in ltasks

(***************************************************************************)
(* evaluate: the display logic (lines 150-165).                            *)
(***************************************************************************)
\* detailed_scores[task]['avg_metric']; score is a defaultdict(dict), so a missing
\* 'avg_metric' reads as {} and the sum raises TypeError
AvgMetricOf(detailed, task) ==
    IF task \notin DOMAIN detailed THEN Raise("KeyError")
    ELSE IF "avg_metric" \notin DOMAIN detailed[task].avg THEN Raise("TypeError")
    ELSE Ok(detailed[task].avg["avg_metric"])

\* sum(detailed_scores[task]['avg_metric'] for task in tasks) / len(tasks)
RECURSIVE SumAvgMetric(_, _, _)
SumAvgMetric(detailed, tasks, i) ==
    IF i > Len(tasks) THEN Ok(Zero)
    ELSE LET head == AvgMetricOf(detailed, tasks[i])
             rest == SumAvgMetric(detailed, tasks, i + 1)
         IN IF head.err # "none" THEN head
            ELSE IF rest.err # "none" THEN rest
            ELSE Ok(RAdd(head.val, rest.val))

MeanAvgMetric(detailed, tasks) ==
    LET total == SumAvgMetric(detailed, tasks, 1)
    IN IF total.err # "none" THEN total ELSE Ok(RDivInt(total.val, Len(tasks)))

\* the test as available_tasks <= all_tasks
AllAvailableSubset(all_tasks, available_tasks) == available_tasks \subseteq all_tasks

\* if all_tasks == available_tasks
AllAvailable(all_tasks, available_tasks) == all_tasks = available_tasks

\* the set difference taken the other way round
GroupAvailableSwapped(group_tasks, available_tasks) ==
    Cardinality(available_tasks \ SeqToSet(group_tasks)) = 0

\* if len(set(group_tasks) - available_tasks) == 0
GroupAvailable(group_tasks, available_tasks) ==
    Cardinality(SeqToSet(group_tasks) \ available_tasks) = 0

Put(d, k, v) == [x \in DOMAIN d \cup {k} |-> IF x = k THEN v ELSE d[x]]

\* for group, group_tasks in GROUP2TASK.items(): ... from position i of the groups
RECURSIVE GroupScores(_, _, _)
GroupScores(detailed, i, overall) ==
    IF i > Len(GroupOrder) THEN Ok(overall)
    ELSE LET group == GroupOrder[i]
         IN IF GroupAvailable(GROUP2TASK[group], DOMAIN detailed)
            THEN LET mean == MeanAvgMetric(detailed, GROUP2TASK[group])
                 IN IF mean.err # "none" THEN mean
                    ELSE GroupScores(detailed, i + 1, Put(overall, group, mean.val))
            ELSE GroupScores(detailed, i + 1, overall)

DisplayLogic(detailed) ==
    LET all_tasks == DOMAIN TASK2LANGS
        available_tasks == DOMAIN detailed
    IN IF AllAvailable(all_tasks, available_tasks)
       THEN LET mean == MeanAvgMetric(detailed, TaskOrder)
            IN IF mean.err # "none" THEN mean
               ELSE GroupScores(detailed, 1, Put(EmptyDict, "all_task", mean.val))
       ELSE GroupScores(detailed, 1, EmptyDict)

(***************************************************************************)
(* The inputs the model draws.                                             *)
(***************************************************************************)
LangSet == SeqToSet(PawsxLangs)

DirNames == {"pawsx", "xnli", "tmp"}

TwoLabels == TextFile(<< <<"1", "\n">>, <<"0", "\n">> >>)

ThreeLabels == TextFile(<< <<"1", "\n">>, <<"0", "\n">>, <<"1", "\n">> >>)

SeqevalAll == [m \in {"f1", "precision", "recall"} |-> Rat(1, 1)]

SeqevalPart == [m \in {"f1", "precision", "recall"} |->
                  CASE m = "f1" -> Rat(2, 5) [] m = "precision" -> Rat(3, 10)
                    [] m = "recall" -> Rat(3, 5)]

SeqevalNone == [m \in {"f1", "precision", "recall"} |-> Zero]

LangCase(p, l, s) == [pred |-> p, label |-> l, seqeval |-> s]

DefaultCase == LangCase(TwoLabels, TwoLabels, SeqevalAll)

OtherCases == { LangCase(NoFile, TwoLabels, SeqevalAll),
                LangCase(TwoLabels, NoFile, SeqevalAll),
                LangCase(NoFile, NoFile, SeqevalAll),
                LangCase(ThreeLabels, TwoLabels, SeqevalAll),
                LangCase(TwoLabels, TwoLabels, SeqevalPart),
                LangCase(TwoLabels, TwoLabels, SeqevalNone) }

\* the pawsx folders in which at most MaxDeviating languages leave the default case
FileSystems ==
    UNION { { [lg \in LangSet |-> IF lg \in S THEN f[lg] ELSE DefaultCase] :
                f \in [S -> OtherCases] } :
            S \in {T \in SUBSET LangSet : Cardinality(T) <= MaxDeviating} }

Complete(fs, lg) == fs[lg].pred.exists /\ fs[lg].label.exists

Matched(fs, lg) == Len(fs[lg].pred.lines) = Len(fs[lg].label.lines)

envVars == << roots, predDirs, labelDirs, files >>

evalVars == << prediction_tasks, label_tasks, taskIdx, detailed_scores, overall_scores >>

oneVars == << argTask, argLang, result >>

blockVars == << score, langIdx >>

IdleBlock == score = EmptyScore /\ langIdx = 1

tagVars == << tagFile, tagPos, labels, example >>

preVars == << rawRows, outDirExists, fileIdx, written >>

IdleEval ==
    /\ prediction_tasks = {} /\ label_tasks = {} /\ taskIdx = 1
    /\ detailed_scores = EmptyDict /\ overall_scores = EmptyDict

IdleOne == argTask = "pawsx" /\ argLang = "de" /\ result = EmptyDict

IdleTag == tagFile = <<>> /\ tagPos = 0 /\ labels = <<>> /\ example = <<>>

IdlePre == rawRows = EmptyDict /\ outDirExists = TRUE /\ fileIdx = 1 /\ written = EmptyDict

BothRoots == {"prediction", "label"}

IdleEnv ==
    /\ roots = BothRoots
    /\ predDirs = {"pawsx"} /\ labelDirs = {"pawsx"}
    /\ files = [lg \in LangSet |-> DefaultCase]

(***************************************************************************)
(* evaluate(prediction_folder, label_folder).                              *)
(***************************************************************************)
InitEvaluate ==
    /\ call = "evaluate" /\ pc = "walk" /\ err = "none"
    /\ roots \in SUBSET BothRoots
    /\ predDirs \in (IF "prediction" \in roots THEN SUBSET DirNames ELSE {{}})
    /\ labelDirs \in (IF "label" \in roots THEN SUBSET DirNames ELSE {{}})
    /\ files \in (IF roots = BothRoots THEN FileSystems ELSE {[lg \in LangSet |-> DefaultCase]})
    /\ IdleBlock
    /\ IdleEval /\ IdleOne /\ IdleTag /\ IdlePre

\* lines 108-112; next(os.walk(folder)) of a folder that does not exist raises
\* StopIteration
Walk ==
    /\ call = "evaluate" /\ pc = "walk"
    /\ IF roots # BothRoots
       THEN /\ err' = "StopIteration"
            /\ pc' = "raised"
            /\ UNCHANGED << prediction_tasks, label_tasks, detailed_scores, taskIdx >>
       ELSE /\ prediction_tasks' = predDirs
            /\ label_tasks' = labelDirs
            /\ detailed_scores' = EmptyDict
            /\ taskIdx' = 1
            /\ pc' = "tasks"
            /\ UNCHANGED err
    /\ UNCHANGED << call, envVars, overall_scores, oneVars, blockVars, tagVars, preVars >>

\* one iteration of `for task, langs in TASK2LANGS.items()` (lines 113-147)
EvalTask ==
    /\ call = "evaluate" /\ pc = "tasks" /\ taskIdx <= Len(TaskOrder)
    /\ LET task == TaskOrder[taskIdx]
       IN IF Eligible(task, prediction_tasks, label_tasks)
          THEN LET body == TaskBody(task)
               IN IF body.err # "none"
                  THEN /\ err' = body.err
                       /\ pc' = "raised"
                       /\ UNCHANGED << taskIdx, detailed_scores >>
                  ELSE /\ detailed_scores' = Put(detailed_scores, task, body.val)
                       /\ taskIdx' = taskIdx + 1
                       /\ UNCHANGED << err, pc >>
          ELSE /\ taskIdx' = taskIdx + 1
               /\ UNCHANGED << err, pc, detailed_scores >>
    /\ UNCHANGED << call, envVars, prediction_tasks, label_tasks, overall_scores,
                    oneVars, blockVars, tagVars, preVars >>

\* lines 149-167
Display ==
    /\ call = "evaluate" /\ pc = "tasks" /\ taskIdx > Len(TaskOrder)
    /\ LET shown == DisplayLogic(detailed_scores)
       IN IF shown.err # "none"
          THEN /\ err' = shown.err
               /\ pc' = "raised"
               /\ UNCHANGED overall_scores
          ELSE /\ overall_scores' = shown.val
               /\ pc' = "done"
               /\ UNCHANGED err
    /\ UNCHANGED << call, envVars, prediction_tasks, label_tasks, taskIdx, detailed_scores,
                    oneVars, blockVars, tagVars, preVars >>

(***************************************************************************)
(* evaluate_one_task(prediction_file, label_file, task, language).         *)
(***************************************************************************)
InitOneTask ==
    /\ call = "evaluate_one_task" /\ pc = "call" /\ err = "none"
    /\ roots = BothRoots
    /\ predDirs = {"pawsx"} /\ labelDirs = {"pawsx"}
    /\ files \in FileSystems
    /\ argTask \in {"pawsx", "xnli"}
    /\ argLang \in LangSet
    /\ result = EmptyDict
    /\ IdleBlock
    /\ IdleEval /\ IdleTag /\ IdlePre

\* lines 88-96
OneTask ==
    /\ call = "evaluate_one_task" /\ pc = "call"
    /\ LET r == evaluate_one_task(Path("prediction", "pawsx", argLang, "tsv"),
                                  Path("label", "pawsx", argLang, "tsv"), argTask, argLang)
       IN IF r.err # "none"
          THEN err' = r.err /\ pc' = "raised" /\ UNCHANGED result
          ELSE result' = r.val /\ pc' = "done" /\ UNCHANGED err
    /\ UNCHANGED << call, envVars, evalVars, argTask, argLang, blockVars, tagVars, preVars >>

(***************************************************************************)
(* read_tag(file).                                                         *)
(***************************************************************************)
SeqsUpTo(S, n) == UNION { [1..k -> S] : k \in 0..n }

TagLines == { <<"\n">>, <<" ", "\n">>, <<"B", "\n">>, <<"O", "\n">>, <<"O">> }

InitReadTag ==
    /\ call = "read_tag" /\ pc = "lines" /\ err = "none"
    /\ tagFile \in SeqsUpTo(TagLines, MaxLines)
    /\ tagPos = 0 /\ labels = <<>> /\ example = <<>>
    /\ IdleEnv /\ IdleEval /\ IdleOne /\ IdleBlock /\ IdlePre

\* one iteration of `for line in open(file, 'r')` (lines 29-35)
ReadTagLine ==
    /\ call = "read_tag" /\ pc = "lines" /\ tagPos < Len(tagFile)
    /\ LET line == Strip(tagFile[tagPos + 1])
       IN IF line # <<>>
          THEN example' = Append(example, line) /\ UNCHANGED labels
          ELSE labels' = Append(labels, example) /\ example' = <<>>
    /\ tagPos' = tagPos + 1
    /\ UNCHANGED << call, pc, err, envVars, evalVars, oneVars, blockVars, tagFile, preVars >>

\* line 36: return labels
ReadTagReturn ==
    /\ call = "read_tag" /\ pc = "lines" /\ tagPos = Len(tagFile)
    /\ pc' = "done"
    /\ UNCHANGED << call, err, envVars, evalVars, oneVars, blockVars, tagVars, preVars >>

(***************************************************************************)
(* pawsx_preprocess(args).  A raw line is its tab-separated fields.        *)
(***************************************************************************)
PreLangs == <<"en", "de", "es", "fr", "ja", "ko", "zh">>

PreSplits == <<"train", "test", "dev">>

split2file == [sp \in {"train", "test", "dev"} |->
                 CASE sp = "train" -> "train" [] sp = "test" -> "test_2k" [] sp = "dev" -> "dev_2k"]

\* number of parameters of `def _preprocess_one_file(infile)`
PreprocessParams == 1

\* number of arguments of the call `_preprocess_one_file(infile, outfile)`
PreprocessCallArgs == 2

\* the (lang, split) pair of position i of the nested loops
PairAt(i) == [lang |-> PreLangs[((i - 1) \div Len(PreSplits)) + 1],
              split |-> PreSplits[((i - 1) % Len(PreSplits)) + 1]]

NPairs == Len(PreLangs) * Len(PreSplits)

\* os.path.join(args.data_dir, lang, "{}.tsv".format(file))
InFile(pair) == [lang |-> pair.lang, file |-> split2file[pair.split]]

\* os.path.join(args.output_dir, "{}-{}.tsv".format(split, lang))
OutFile(pair) == [split |-> pair.split, lang |-> pair.lang]

\* str.split(' ')
RECURSIVE SplitSpace(_, _)
SplitSpace(s, cur) ==
    IF s = <<>> THEN <<cur>>
    ELSE IF Head(s) = " " THEN <<cur>> \o SplitSpace(Tail(s), <<>>)
    ELSE SplitSpace(Tail(s), Append(cur, Head(s)))

\* ' '.join(pieces)
RECURSIVE JoinSpace(_)
JoinSpace(pieces) ==
    IF Len(pieces) = 1 THEN pieces[1]
    ELSE pieces[1] \o <<" ">> \o JoinSpace(Tail(pieces))

\* line.strip().split('\t')
Items(line) ==
    [i \in 1..Len(line) |->
        IF Len(line) = 1 THEN Strip(line[i])
        ELSE IF i = 1 THEN LStrip(line[i])
        ELSE IF i = Len(line) THEN RStrip(line[i])
        ELSE line[i]]

\* lines 30-34 for one line
PreprocessLine(line) ==
    LET items == Items(line)
    IN << JoinSpace(SplitSpace(Strip(items[2]), <<>>)),
          JoinSpace(SplitSpace(Strip(items[3]), <<>>)),
          items[4] >>

\* the body of _preprocess_one_file (lines 26-38): the rows written
PreprocessOneFile(lines) == [i \in 1..(Len(lines) - 1) |-> PreprocessLine(lines[i + 1])]

RawHeader == << <<"i", "d">>, <<"s", "1">>, <<"s", "2">>, <<"l", "\n">> >>

RawLines == { << <<"1">>, <<"a", " ", "b">>, <<"a", " ", " ", "c">>, <<"1", "\n">> >>,
              << <<"2">>, <<" ", "d">>, <<"e">>, <<"0", "\n">> >> }

RawKeys == { InFile(PairAt(i)) : i \in 1..NPairs }

InitPreprocess ==
    /\ call = "pawsx_preprocess" /\ pc = "makedirs" /\ err = "none"
    /\ \E rows \in SeqsUpTo(RawLines, MaxRows), missing \in SUBSET RawKeys :
          /\ Cardinality(missing) <= 1
          /\ rawRows = [k \in RawKeys \ missing |-> <<RawHeader>> \o rows]
    /\ outDirExists \in BOOLEAN
    /\ fileIdx = 1 /\ written = EmptyDict
    /\ IdleEnv /\ IdleEval /\ IdleOne /\ IdleBlock /\ IdleTag

\* lines 40-41
PreprocessMakeDirs ==
    /\ call = "pawsx_preprocess" /\ pc = "makedirs"
    /\ outDirExists' = TRUE
    /\ pc' = "loop"
    /\ UNCHANGED << call, err, envVars, evalVars, oneVars, blockVars, tagVars,
                    rawRows, fileIdx, written >>

\* one iteration of the nested loops (lines 43-50), or their end
PreprocessFile ==
    /\ call = "pawsx_preprocess" /\ pc = "loop"
    /\ IF fileIdx > NPairs
       THEN pc' = "done" /\ UNCHANGED << err, fileIdx, written >>
       ELSE IF PreprocessCallArgs # PreprocessParams
       THEN err' = "TypeError" /\ pc' = "raised" /\ UNCHANGED << fileIdx, written >>
       ELSE IF InFile(PairAt(fileIdx)) \notin DOMAIN rawRows
       THEN err' = "FileNotFoundError" /\ pc' = "raised" /\ UNCHANGED << fileIdx, written >>
       ELSE /\ written' = Put(written, OutFile(PairAt(fileIdx)),
                              PreprocessOneFile(rawRows[InFile(PairAt(fileIdx))]))
            /\ fileIdx' = fileIdx + 1
            /\ UNCHANGED << err, pc >>
    /\ UNCHANGED << call, envVars, evalVars, oneVars, blockVars, tagVars,
                    rawRows, outDirExists >>

(***************************************************************************)
(* The program: one call of one entry point.                               *)
(***************************************************************************)
Init == InitEvaluate \/ InitOneTask \/ InitReadTag \/ InitPreprocess

Next ==
    \/ Walk
    \/ EvalTask
    \/ Display
    \/ OneTask
    \/ ReadTagLine
    \/ ReadTagReturn
    \/ PreprocessMakeDirs
    \/ PreprocessFile

Spec == Init /\ [][Next]_vars

Terminated == pc \in {"done", "raised"}

(***************************************************************************)
(* The block of evaluate run for one eligible task, from line 117 on, as a *)
(* function of the task's files: the suffix is the "tsv" of a task outside *)
(* the "qa" group.                                                         *)
(***************************************************************************)
InitTaskBlock ==
    /\ call = "task_block" /\ pc = "fold" /\ err = "none"
    /\ roots = BothRoots
    /\ predDirs = {"pawsx"} /\ labelDirs = {"pawsx"}
    /\ files \in FileSystems
    /\ argTask = "pawsx" /\ argLang = "de" /\ result = EmptyDict
    /\ score = EmptyScore /\ langIdx = 1
    /\ IdleEval /\ IdleTag /\ IdlePre

\* one iteration of `for lg in langs` (lines 118-128)
FoldLang ==
    /\ call = "task_block" /\ pc = "fold" /\ langIdx <= Len(TASK2LANGS[argTask])
    /\ LET lg == TASK2LANGS[argTask][langIdx]
           score_lg == evaluate_one_task(Path("prediction", argTask, lg, "tsv"),
                                         Path("label", argTask, lg, "tsv"), argTask, lg)
       IN IF score_lg.err # "none"
          THEN err' = score_lg.err /\ pc' = "raised" /\ UNCHANGED blockVars
          ELSE /\ score' = [score EXCEPT !.per = FoldScore(score.per, lg, score_lg.val)]
               /\ langIdx' = langIdx + 1
               /\ UNCHANGED << err, pc >>
    /\ UNCHANGED << call, envVars, evalVars, oneVars, tagVars, preVars >>

\* lines 130-133
Average ==
    /\ call = "task_block" /\ pc = "fold" /\ langIdx > Len(TASK2LANGS[argTask])
    /\ score' = [score EXCEPT !.avg = AvgScore(score.per)]
    /\ pc' = "summary"
    /\ UNCHANGED << call, err, envVars, evalVars, oneVars, langIdx, tagVars, preVars >>

\* lines 134-140
Summary ==
    /\ call = "task_block" /\ pc = "summary"
    /\ LET s == SummaryMetric(argTask, score)
       IN IF s.err # "none"
          THEN err' = s.err /\ pc' = "raised" /\ UNCHANGED score
          ELSE score' = s.val /\ pc' = "done" /\ UNCHANGED err
    /\ UNCHANGED << call, envVars, evalVars, oneVars, langIdx, tagVars, preVars >>

NextTaskBlock == FoldLang \/ Average \/ Summary

SpecTaskBlock == InitTaskBlock /\ [][NextTaskBlock]_vars

(***************************************************************************)
(* Properties.                                                             *)
(***************************************************************************)
Produced(task) ==
    task \in DOMAIN detailed_scores /\ "avg_metric" \in DOMAIN detailed_scores[task].avg

\* the mean of the avg_metric values of a list of tasks that all produced one
ExpectedMean(tasks) ==
    RDivInt(RSumSeq([i \in 1..Len(tasks) |-> detailed_scores[tasks[i]].avg["avg_metric"]]),
            Len(tasks))

\* a registered task that is a subfolder of both roots
InBothRoots(task) == task \in predDirs /\ task \in labelDirs

\* both roots exist and no registered task is a subfolder of both
NoTaskInBothRoots == roots = BothRoots /\ \A t \in DOMAIN TASK2LANGS : ~InBothRoots(t)

AllComplete == \A lg \in LangSet : Complete(files, lg)

AllMatched == \A lg \in LangSet : Complete(files, lg) => Matched(files, lg)

\* C1: when evaluate() has returned, a group has an entry in overall_scores exactly
\* when every member task produced an avg_metric, the entry is the mean of the
\* members' avg_metric values, and a group with an unavailable member (one outside
\* the registry included) has no entry; with no registered task in both roots the
\* call does return, so the entry is left out and no exception stands in for it.
C1_GroupScoreIffAllMembers ==
    call = "evaluate" =>
        /\ pc = "done" =>
             \A g \in DOMAIN GROUP2TASK :
                /\ g \in DOMAIN overall_scores <=>
                      \A t \in SeqToSet(GROUP2TASK[g]) : Produced(t)
                /\ g \in DOMAIN overall_scores =>
                      overall_scores[g] = ExpectedMean(GROUP2TASK[g])
                /\ (\E t \in SeqToSet(GROUP2TASK[g]) : ~InBothRoots(t) \/ t \notin DOMAIN TASK2LANGS)
                      => g \notin DOMAIN overall_scores
        /\ (Terminated /\ NoTaskInBothRoots) => pc = "done"

\* evaluate() returned with the xnli folder in both roots: xnli is a member of the
\* classification group but not of the registry, and the group has no entry
C1_Witness ==
    /\ call = "evaluate" /\ pc = "done"
    /\ "xnli" \in predDirs /\ "xnli" \in labelDirs
    /\ "pawsx" \in predDirs /\ "pawsx" \notin labelDirs
    /\ "classification" \notin DOMAIN overall_scores

\* C2: when evaluate() has returned, overall_scores holds 'all_task' exactly when
\* every registered task produced an avg_metric, it is then the mean of their
\* avg_metric values, and otherwise the key is left out: with no registered task
\* in both roots the call returns without it and raises nothing.
C2_GlobalScoreIffAllTasks ==
    call = "evaluate" =>
        /\ pc = "done" =>
             /\ "all_task" \in DOMAIN overall_scores <=>
                   \A t \in DOMAIN TASK2LANGS : Produced(t)
             /\ "all_task" \in DOMAIN overall_scores =>
                   overall_scores["all_task"] = ExpectedMean(TaskOrder)
        /\ (Terminated /\ NoTaskInBothRoots) =>
             pc = "done" /\ err = "none" /\ "all_task" \notin DOMAIN overall_scores

\* evaluate() returned without the global score because pawsx has no label folder
C2_Witness ==
    /\ call = "evaluate" /\ pc = "done" /\ err = "none"
    /\ "pawsx" \in predDirs /\ "pawsx" \notin labelDirs
    /\ ~Produced("pawsx")
    /\ "all_task" \notin DOMAIN overall_scores

\* C3: for an eligible task with a language whose prediction or label file is
\* absent, evaluate() raises nothing, leaves that language out of the per-language
\* scores, scores the other languages and stores the task's averages.
C3_MissingLanguageSkipped ==
    (/\ call = "evaluate" /\ Terminated
     /\ InBothRoots("pawsx") /\ AllMatched
     /\ \E lg \in LangSet : ~Complete(files, lg))
    => /\ pc = "done" /\ err = "none"
       /\ "pawsx" \in DOMAIN detailed_scores
       /\ \A m \in {"f1", "precision", "recall"} :
             /\ m \in DOMAIN detailed_scores["pawsx"].per
             /\ DOMAIN detailed_scores["pawsx"].per[m] = {lg \in LangSet : Complete(files, lg)}
             /\ AvgKeyOf[m] \in DOMAIN detailed_scores["pawsx"].avg

\* the f1, precision or recall score of language i of the list, as the metric returns it
LangScore(m, i) == RMulInt(files[PawsxLangs[i]].seqeval[m], 100)

C5_MismatchConfinedToTask ==
    (/\ call = "evaluate" /\ Terminated
     /\ InBothRoots("pawsx")
     /\ \E lg \in LangSet : Complete(files, lg) /\ ~Matched(files, lg))
    => /\ pc = "done" /\ err = "none"
       /\ "pawsx" \notin DOMAIN detailed_scores

\* C6: evaluate() works on a task only if it is registered and a subfolder of both
\* roots: every entry of detailed_scores belongs to such a task, an exception is
\* raised only for such a task or for a root that does not exist, and when no
\* registered task is in both roots (other folders may be) the call returns with
\* detailed_scores empty.
C6_OnlyEligibleRegisteredTasks ==
    call = "evaluate" =>
        /\ \A t \in DOMAIN detailed_scores : t \in DOMAIN TASK2LANGS /\ InBothRoots(t)
        /\ pc = "raised" => roots # BothRoots \/ \E t \in DOMAIN TASK2LANGS : InBothRoots(t)
        /\ (Terminated /\ NoTaskInBothRoots) =>
              pc = "done" /\ err = "none" /\ detailed_scores = EmptyDict

\* evaluate() returned: an unregistered folder in both roots and pawsx in the
\* prediction root only were passed over
C6_Witness ==
    /\ call = "evaluate" /\ pc = "done" /\ err = "none"
    /\ "tmp" \in predDirs /\ "tmp" \in labelDirs
    /\ "pawsx" \in predDirs /\ "pawsx" \notin labelDirs
    /\ detailed_scores = EmptyDict

\* C7: for every eligible registered task the choice of the file extension, made
\* from the task's membership in the span-extraction group, succeeds: a task outside
\* the group is read from .tsv files and evaluate() does not end in a KeyError.
C7_SuffixDecidedByGroup ==
    (call = "evaluate" /\ Terminated) =>
        \A t \in DOMAIN TASK2LANGS :
            InBothRoots(t) =>
                /\ Suffix(t).err = "none"
                /\ Suffix(t).val = "tsv"
                /\ err # "KeyError"

AllRawPresent == DOMAIN rawRows = RawKeys

\* C8: with every raw file present, pawsx_preprocess ends with the 21 output files
\* written, each holding one row per raw data row, in the raw order, the header dropped.
C8_AllOutputsWritten ==
    (call = "pawsx_preprocess" /\ Terminated /\ AllRawPresent) =>
        /\ pc = "done" /\ err = "none"
        /\ \A i \in 1..NPairs :
              /\ OutFile(PairAt(i)) \in DOMAIN written
              /\ Len(written[OutFile(PairAt(i))]) = Len(rawRows[InFile(PairAt(i))]) - 1

\* C9: an evaluated task outside the span-extraction group whose metric yields f1
\* gets avg_metric = avg_f1.
C9_SummaryMetricPriority ==
    (/\ call = "evaluate" /\ Terminated
     /\ InBothRoots("pawsx") /\ AllComplete /\ AllMatched)
    => /\ Produced("pawsx")
       /\ detailed_scores["pawsx"].avg["avg_metric"] = detailed_scores["pawsx"].avg["avg_f1"]

\* the non-blank lines of a file, stripped, in file order
RECURSIVE NonBlank(_)
NonBlank(lines) ==
    IF lines = <<>> THEN <<>>
    ELSE IF Strip(Head(lines)) = <<>> THEN NonBlank(Tail(lines))
    ELSE <<Strip(Head(lines))>> \o NonBlank(Tail(lines))

RECURSIVE Flatten(_)
Flatten(examples) ==
    IF examples = <<>> THEN <<>> ELSE Head(examples) \o Flatten(Tail(examples))

\* C10: read_tag returns every tag line of the file, in file order, inside some
\* example: the example in progress at end-of-file is part of the result.
C10_LastExampleFlushed ==
    (call = "read_tag" /\ pc = "done") => Flatten(labels) = NonBlank(tagFile)

====
